---- MODULE Spec2Model ----
(***************************************************************************)
(* Model of brainbox.io.extract_waveforms (src/brainbox/io/io.py) and of   *)
(* brainbox.core.ismember / ismember2d (src/brainbox/core/core.py).        *)
(*                                                                         *)
(* Numbers.  Times are fixed-point: a timestamp is the integer number of   *)
(* ticks of ts * sr, TicksPerSample ticks to one sample, so that           *)
(* astype(int) (truncation towards zero) and rounding to nearest differ.   *)
(* float64 values that can carry a half (a median of an even number of    *)
(* int16 samples, the waveforms after the baseline is subtracted) are      *)
(* stored doubled: noise_s and waveforms hold 2 * value.                   *)
(***************************************************************************)
EXTENDS Integers, Sequences, FiniteSets, TLC

\* ------------------------------------------------------------------ bounds
\* ticks per sample of the fixed-point timestamps and of sr/1000 * (t/2)
TicksPerSample == 2
\* longest timestamp sequence given to a call
MaxTs == 5
\* total_samples of the recording (rows of file_m)
TotalSamples == 10
\* channels of the recording, and the n_ch_probe argument of the call
n_ch_probe == 2
\* samples per chunk: stands for the 5e6 of line 95, scaled so that the
\* estimation range of a recording of TotalSamples samples spans several chunks
n_chunk_samples == 4
\* rows (and columns) of the arrays given to ismember2d, and their values
MaxRows == 2
NCols == 2
MaxVal == 2

\* --------------------------------------------------------------- constants
\* range(5): rows written by the timing loop before the extraction loop
NProbe == 5
\* the least int16, one outcome of casting NaN to int16
MinInt16 == -32768

VARIABLES
    \* arguments of extract_waveforms
    ts, half_width, ch, car, file_m,
    \* locals of extract_waveforms
    pc, opened, n_wf_samples, ts_samples, t_sample_first, t_sample_last,
    n_chunks, chunk_sample, noise_s_chunks, noise_s, waveforms, i, spk, chunk,
    error, reads,
    \* ismember2d: arguments, locals, position
    a0, a1, ia, ib, n, mpc

xvars == <<ts, half_width, ch, car, file_m, pc, opened, n_wf_samples, ts_samples,
           t_sample_first, t_sample_last, n_chunks, chunk_sample, noise_s_chunks,
           noise_s, waveforms, i, spk, chunk, error, reads>>
mvars == <<a0, a1, ia, ib, n, mpc>>
vars == <<xvars, mvars>>

\* ----------------------------------------------------------------- numbers
\* int(x / d), d > 0: truncation towards zero (np.int, ndarray.astype(int))
TruncDiv(x, d) == IF x >= 0 THEN x \div d ELSE -((-x) \div d)

\* np.ceil(x / d), d > 0
CeilDiv(x, d) == -((-x) \div d)

\* x / d rounded to nearest, halves away from zero
RoundDiv(x, d) == IF x >= 0 THEN (2 * x + d) \div (2 * d) ELSE -((2 * (-x) + d) \div (2 * d))

Max2(x, y) == IF x > y THEN x ELSE y
Min2(x, y) == IF x < y THEN x ELSE y

\* ------------------------------------------------------------ numpy pieces
\* the row indices selected by the slice file_m[start:stop] of an array of
\* len rows: a negative bound counts from the end, both are clipped
SliceStart(start, len) == IF start < 0 THEN Max2(len + start, 0) ELSE Min2(start, len)
SliceRows(start, stop, len) ==
    LET lo == SliceStart(start, len)
        hi == SliceStart(stop, len)
    IN  [k \in 1..Max2(hi - lo, 0) |-> lo + k - 1]

\* file_m[start:stop, ch]: one row per selected sample, one column per entry of ch
ReadSlice(start, stop) ==
    LET rows == SliceRows(start, stop, TotalSamples)
    IN  [k \in 1..Len(rows) |-> [j \in 1..Len(ch) |-> file_m[rows[k]][ch[j]]]]

\* an entry of ch is no column of file_m: the fancy index raises IndexError
\* (a negative entry never reaches a read, line 86 rejects it)
BadIndex == \E j \in 1..Len(ch) : ch[j] >= n_ch_probe

\* twice np.median of a non-empty sequence of integers
KthSmallest(s, k) ==
    CHOOSE v \in {s[x] : x \in 1..Len(s)} :
        /\ Cardinality({x \in 1..Len(s) : s[x] < v}) < k
        /\ Cardinality({x \in 1..Len(s) : s[x] <= v}) >= k
Median2(s) ==
    IF Len(s) % 2 = 1 THEN 2 * KthSmallest(s, (Len(s) + 1) \div 2)
    ELSE KthSmallest(s, Len(s) \div 2) + KthSmallest(s, Len(s) \div 2 + 1)

\* column j of a matrix given as a sequence of rows
Column(m, j) == [k \in 1..Len(m) |-> m[k][j]]

\* the values a float64 h/2 can become when stored into an int16 array
Int16Of(h) == TruncDiv(h, 2)
\* casting NaN (the median of an empty slice) to int16 is undefined
NanAsInt16 == {0, MinInt16}

\* a slip: the chunk bounds without the cut at last (np.arange up to past last)
ChunkSampleUncut(first, last) ==
    LET m == Max2(CeilDiv(last - first, n_chunk_samples), 0)
    IN  [k \in 1..m + 1 |-> first + (k - 1) * n_chunk_samples]

\* np.arange(first, last, n_chunk_samples, dtype=int), then np.append(.., last)
ChunkSample(first, last) ==
    LET m == Max2(CeilDiv(last - first, n_chunk_samples), 0)
    IN  [k \in 1..m + 1 |-> IF k <= m THEN first + (k - 1) * n_chunk_samples ELSE last]

\* ------------------------------------------------------------------ inputs
\* ts * sr in ticks: a spike before the recording, at sample 0, at sample 1 and
\* a half, at sample 6, at the last sample, and one sample after the end
TsValues == {-5 * TicksPerSample, 0, TicksPerSample + 1, 6 * TicksPerSample,
             (TotalSamples - 1) * TicksPerSample, TotalSamples * TicksPerSample}
\* the timestamps between the first and the last: before the recording or inside it
InnerValues == {-5 * TicksPerSample, TicksPerSample + 1, 6 * TicksPerSample}
TsInputs ==
    UNION {{s \in [1..m -> TsValues] : \A k \in 2..m - 1 : s[k] \in InnerValues} : m \in 0..MaxTs}
\* sr / 1000 * (t / 2) in ticks: no sample, one sample, one sample and a half
HalfWidths == {0, TicksPerSample, TicksPerSample + 1}
ChInputs == {<<0>>, <<1, 0>>, <<n_ch_probe>>, <<-1, 0>>}
\* recordings: a ramp, and a trace that is neither monotone nor positive
Ramp == [s \in 0..TotalSamples - 1 |-> [c \in 0..n_ch_probe - 1 |-> 3 * s + 40 * c]]
Wave == [s \in 0..TotalSamples - 1 |-> [c \in 0..n_ch_probe - 1 |-> ((5 * s) % 7) - 3 - 20 * c]]
Recordings == {Ramp, Wave}

\* --------------------------------------------------------- extract_waveforms
XInit ==
    /\ ts \in TsInputs
    /\ half_width \in HalfWidths
    /\ ch \in ChInputs
    /\ car \in BOOLEAN
    /\ file_m \in Recordings
    /\ pc = "open"
    /\ opened = FALSE
    /\ n_wf_samples = 0
    /\ ts_samples = <<>>
    /\ t_sample_first = 0
    /\ t_sample_last = 0
    /\ n_chunks = 0
    /\ chunk_sample = <<>>
    /\ noise_s_chunks = <<>>
    /\ noise_s = <<>>
    /\ waveforms = <<>>
    /\ i = 0
    /\ spk = 0
    /\ chunk = 0
    /\ error = "none"
    /\ reads = <<>>

\* the call leaves by an exception
Raise(e) == pc' = "raised" /\ error' = e

\* one read of file_m, as requested: the bounds of the slice, before clipping
Issue(kind, start, stop) == reads' = Append(reads, [kind |-> kind, start |-> start, stop |-> stop])

\* whether file_m[start:stop, ch] raises IndexError: an entry of ch that is no
\* column does, except that numpy releases differ when the slice selects no row
ReadRaises(start, stop) ==
    IF ~BadIndex THEN {FALSE}
    ELSE IF Len(SliceRows(start, stop, TotalSamples)) = 0 THEN {TRUE, FALSE}
    ELSE {TRUE}

\* line 76-77: s_reader = spikeglx.Reader(ephys_file); file_m = s_reader.data
OpenReader ==
    /\ pc = "open"
    /\ opened' = TRUE
    /\ pc' = "convert"
    /\ UNCHANGED <<mvars, ts, half_width, ch, car, file_m, n_wf_samples, ts_samples,
                   t_sample_first, t_sample_last, n_chunks, chunk_sample, noise_s_chunks,
                   noise_s, waveforms, i, spk, chunk, error, reads>>

\* lines 78-81: the half width and the spikes' samples, both by truncation;
\* ts_samples[0] of an empty array raises IndexError
ConvertTimestamps ==
    /\ pc = "convert"
    /\ n_wf_samples' = TruncDiv(half_width, TicksPerSample)
    /\ ts_samples' = [k \in 1..Len(ts) |-> TruncDiv(ts[k], TicksPerSample)]
    /\ IF Len(ts) = 0
       THEN /\ Raise("IndexError")
            /\ UNCHANGED <<t_sample_first, t_sample_last>>
       ELSE /\ t_sample_first' = ts_samples'[1] - n_wf_samples'
            /\ t_sample_last' = ts_samples'[Len(ts)] + n_wf_samples'
            /\ pc' = "validate"
            /\ UNCHANGED error
    /\ UNCHANGED <<mvars, ts, half_width, ch, car, file_m, opened, n_chunks, chunk_sample,
                   noise_s_chunks, noise_s, waveforms, i, spk, chunk, reads>>

\* line 86: np.any(ch < 0) or np.any(ch > n_ch_probe)
ImpossibleChannel == \E j \in 1..Len(ch) : ch[j] < 0 \/ ch[j] > n_ch_probe

\* lines 84-89: exception handling for impossible channels
ValidateChannels ==
    /\ pc = "validate"
    /\ IF ImpossibleChannel
       THEN Raise("Exception")
       ELSE /\ pc' = IF car THEN "car_setup" ELSE "alloc"
            /\ UNCHANGED error
    /\ UNCHANGED <<mvars, ts, half_width, ch, car, file_m, opened, n_wf_samples, ts_samples,
                   t_sample_first, t_sample_last, n_chunks, chunk_sample, noise_s_chunks,
                   noise_s, waveforms, i, spk, chunk, reads>>

\* lines 95-101: the chunks of [t_sample_first, t_sample_last); np.zeros of a
\* negative number of rows raises ValueError
CarSetup ==
    /\ pc = "car_setup"
    /\ n_chunks' = CeilDiv(t_sample_last - t_sample_first, n_chunk_samples)
    /\ chunk_sample' = ChunkSample(t_sample_first, t_sample_last)
    /\ IF n_chunks' < 0
       THEN /\ Raise("ValueError")
            /\ UNCHANGED noise_s_chunks
       ELSE /\ noise_s_chunks' = [k \in 1..n_chunks' |-> [j \in 1..Len(ch) |-> 0]]
            /\ pc' = "car_timing"
            /\ UNCHANGED error
    /\ UNCHANGED <<mvars, ts, half_width, ch, car, file_m, opened, n_wf_samples, ts_samples,
                   t_sample_first, t_sample_last, noise_s, waveforms, i, spk, chunk, reads>>

\* line 104: the first chunk is read once to time it, its median discarded;
\* chunk_sample[1] of a one-element array raises IndexError
CarTiming ==
    /\ pc = "car_timing"
    /\ IF Len(chunk_sample) < 2
       THEN /\ Raise("IndexError")
            /\ UNCHANGED reads
       ELSE /\ Issue("timing", chunk_sample[1], chunk_sample[2])
            /\ \E raises \in ReadRaises(chunk_sample[1], chunk_sample[2]) :
                 IF raises
                 THEN Raise("IndexError")
                 ELSE pc' = "car_chunk" /\ UNCHANGED error
    /\ chunk' = 0
    /\ UNCHANGED <<mvars, ts, half_width, ch, car, file_m, opened, n_wf_samples, ts_samples,
                   t_sample_first, t_sample_last, n_chunks, chunk_sample, noise_s_chunks,
                   noise_s, waveforms, i, spk>>

\* the int16 values np.median(file_m[start:stop, ch], axis=0) is stored as
ChunkMedians(start, stop) ==
    LET m == ReadSlice(start, stop)
    IN  IF Len(m) = 0
        THEN {[j \in 1..Len(ch) |-> v] : v \in NanAsInt16}
        ELSE {[j \in 1..Len(ch) |-> Int16Of(Median2(Column(m, j)))]}

\* lines 109-111: one pass of the loop over the chunks
CarChunk ==
    /\ pc = "car_chunk"
    /\ chunk < n_chunks
    /\ Issue("chunk", chunk_sample[chunk + 1], chunk_sample[chunk + 2])
    /\ \E raises \in ReadRaises(chunk_sample[chunk + 1], chunk_sample[chunk + 2]) :
         IF raises
         THEN /\ Raise("IndexError")
              /\ UNCHANGED <<noise_s_chunks, chunk>>
         ELSE /\ \E med \in ChunkMedians(chunk_sample[chunk + 1], chunk_sample[chunk + 2]) :
                   noise_s_chunks' = [noise_s_chunks EXCEPT ![chunk + 1] = med]
              /\ chunk' = chunk + 1
              /\ pc' = IF chunk + 1 = n_chunks THEN "car_median" ELSE "car_chunk"
              /\ UNCHANGED error
    /\ UNCHANGED <<mvars, ts, half_width, ch, car, file_m, opened, n_wf_samples, ts_samples,
                   t_sample_first, t_sample_last, n_chunks, chunk_sample, noise_s,
                   waveforms, i, spk>>

\* line 112: noise_s = np.median(noise_s_chunks, axis=0), a float64 (doubled)
CarMedian ==
    /\ pc = "car_median"
    /\ noise_s' = [j \in 1..Len(ch) |-> Median2(Column(noise_s_chunks, j))]
    /\ pc' = "alloc"
    /\ UNCHANGED <<mvars, ts, half_width, ch, car, file_m, opened, n_wf_samples, ts_samples,
                   t_sample_first, t_sample_last, n_chunks, chunk_sample, noise_s_chunks,
                   waveforms, i, spk, chunk, error, reads>>

\* line 116: waveforms = np.zeros((len(ts), 2 * n_wf_samples, ch.size));
\* a negative dimension raises ValueError
Allocate ==
    /\ pc = "alloc"
    /\ IF n_wf_samples < 0
       THEN /\ Raise("ValueError")
            /\ UNCHANGED waveforms
       ELSE /\ waveforms' = [r \in 1..Len(ts) |->
                               [k \in 1..2 * n_wf_samples |-> [j \in 1..Len(ch) |-> 0]]]
            /\ pc' = "probe"
            /\ UNCHANGED error
    /\ i' = 0
    /\ UNCHANGED <<mvars, ts, half_width, ch, car, file_m, opened, n_wf_samples, ts_samples,
                   t_sample_first, t_sample_last, n_chunks, chunk_sample, noise_s_chunks,
                   noise_s, spk, chunk, reads>>

\* the float64 rows (doubled) of a block read from file_m
AsFloat(m) == [k \in 1..Len(m) |-> [j \in 1..Len(ch) |-> 2 * m[k][j]]]

\* waveforms[row, :, :] = file_m[start:stop, ch].reshape((2 * n_wf_samples, ch.size)):
\* the read (IndexError), the reshape (ValueError when the slice was clipped),
\* then the store (IndexError when waveforms has no such row)
StoreRow(kind, row, start, stop, next) ==
    /\ Issue(kind, start, stop)
    /\ \E raises \in ReadRaises(start, stop) :
         IF raises
         THEN Raise("IndexError") /\ UNCHANGED waveforms
         ELSE IF Len(SliceRows(start, stop, TotalSamples)) # 2 * n_wf_samples
         THEN Raise("ValueError") /\ UNCHANGED waveforms
         ELSE IF row > Len(waveforms)
         THEN Raise("IndexError") /\ UNCHANGED waveforms
         ELSE /\ waveforms' = [waveforms EXCEPT ![row] = AsFloat(ReadSlice(start, stop))]
              /\ pc' = next
              /\ UNCHANGED error

\* lines 119-123: one pass of the timing loop, which writes rows 0..4 from
\* consecutive blocks starting at t_sample_first
Probe ==
    /\ pc = "probe"
    /\ i < NProbe
    /\ StoreRow("probe", i + 1,
                i * n_wf_samples * 2 + t_sample_first,
                i * n_wf_samples * 2 + t_sample_first + n_wf_samples * 2,
                IF i + 1 = NProbe THEN "extract" ELSE "probe")
    /\ i' = IF pc' = "raised" THEN i ELSE i + 1
    /\ spk' = 0
    /\ UNCHANGED <<mvars, ts, half_width, ch, car, file_m, opened, n_wf_samples, ts_samples,
                   t_sample_first, t_sample_last, n_chunks, chunk_sample, noise_s_chunks,
                   noise_s, chunk>>

\* lines 127-132: one pass of the extraction loop; spk_samples[0] of an empty
\* np.arange raises IndexError
Extract ==
    /\ pc = "extract"
    /\ spk < Len(ts)
    /\ IF n_wf_samples <= 0
       THEN /\ Raise("IndexError")
            /\ UNCHANGED <<waveforms, reads>>
       ELSE StoreRow("spike", spk + 1,
                     ts_samples[spk + 1] - n_wf_samples,
                     ts_samples[spk + 1] + n_wf_samples,
                     IF spk + 1 = Len(ts) THEN "finish" ELSE "extract")
    /\ spk' = IF pc' = "raised" THEN spk ELSE spk + 1
    /\ UNCHANGED <<mvars, ts, half_width, ch, car, file_m, opened, n_wf_samples, ts_samples,
                   t_sample_first, t_sample_last, n_chunks, chunk_sample, noise_s_chunks,
                   noise_s, i, chunk>>

\* lines 134-137: waveforms -= noise_s[None, None, :] when car; return waveforms
Finish ==
    /\ pc = "finish"
    /\ waveforms' = IF car
                    THEN [r \in 1..Len(waveforms) |->
                            [k \in 1..Len(waveforms[r]) |->
                               [j \in 1..Len(ch) |-> waveforms[r][k][j] - noise_s[j]]]]
                    ELSE waveforms
    /\ pc' = "done"
    /\ UNCHANGED <<mvars, ts, half_width, ch, car, file_m, opened, n_wf_samples, ts_samples,
                   t_sample_first, t_sample_last, n_chunks, chunk_sample, noise_s_chunks,
                   noise_s, i, spk, chunk, error, reads>>

\* ------------------------------------------------------ ismember, ismember2d
\* arrays are sequences; an index array holds positions counted from 1
Values(s) == {s[x] : x \in 1..Len(s)}

\* s[mask]: the entries of s where the boolean array mask is true
RECURSIVE Masked(_, _)
Masked(s, mask) ==
    IF Len(s) = 0 THEN <<>>
    ELSE IF mask[1] THEN <<s[1]>> \o Masked(Tail(s), Tail(mask))
    ELSE Masked(Tail(s), Tail(mask))

\* np.unique(s): the sorted distinct values
Unique(s) ==
    CHOOSE u \in [1..Cardinality(Values(s)) -> Values(s)] :
        \A x, y \in 1..Cardinality(Values(s)) : x < y => u[x] < u[y]

\* return_inverse: for each entry of s its position in Unique(s)
UniqueInverse(s) ==
    LET u == Unique(s)
    IN  [k \in 1..Len(s) |-> CHOOSE x \in 1..Len(u) : u[x] = s[k]]

\* the position of the first occurrence of v in b
FirstIndex(b, v) == CHOOSE x \in 1..Len(b) : b[x] = v /\ \A y \in 1..x - 1 : b[y] # v

\* np.intersect1d(b, aun, return_indices=True)[1]: for each common value, in
\* ascending order, the position of its first occurrence in b
IntersectIndices(b, aun) ==
    LET common == Unique(Masked(aun, [k \in 1..Len(aun) |-> aun[k] \in Values(b)]))
    IN  [k \in 1..Len(common) |-> FirstIndex(b, common[k])]

\* core.py lines 113-117
ismember(a, b) ==
    LET lia == [k \in 1..Len(a) |-> a[k] \in Values(b)]
        sel == Masked(a, lia)
        aun == Unique(sel)
        iuainv == UniqueInverse(sel)
        ibu == IntersectIndices(b, aun)
    IN  [lia |-> lia, locb |-> [k \in 1..Len(sel) |-> ibu[iuainv[k]]]]

\* a[:, c] and a[idx, c]
Col(a, c) == [k \in 1..Len(a) |-> a[k][c]]
ColAt(a, idx, c) == [k \in 1..Len(idx) |-> a[idx[k]][c]]

\* ia[np.where(ia)[0]] = iia: the k-th true entry of ia becomes iia[k]
Scatter(mask, iia) ==
    [k \in 1..Len(mask) |->
        IF mask[k] THEN iia[Cardinality({x \in 1..k : mask[x]})] ELSE FALSE]

Matrices == UNION {[1..r -> [1..NCols -> 0..MaxVal]] : r \in 1..MaxRows}

MInit ==
    /\ a0 \in Matrices
    /\ a1 \in Matrices
    /\ ia = <<>>
    /\ ib = <<>>
    /\ n = 0
    /\ mpc = "start"

\* line 130: ia, ib = ismember(a0[:, 0], a1[:, 0])
MemberFirst ==
    /\ mpc = "start"
    /\ ia' = ismember(Col(a0, 1), Col(a1, 1)).lia
    /\ ib' = ismember(Col(a0, 1), Col(a1, 1)).locb
    /\ n' = 1
    /\ mpc' = IF NCols > 1 THEN "loop" ELSE "done"
    /\ UNCHANGED <<xvars, a0, a1>>

\* lines 131-134: one pass of the loop over the other columns
MemberColumn ==
    /\ mpc = "loop"
    /\ LET r == ismember(Masked(Col(a0, n + 1), ia), ColAt(a1, ib, n + 1))
       IN  /\ ib' = [k \in 1..Len(r.locb) |-> ib[r.locb[k]]]
           /\ ia' = Scatter(ia, r.lia)
    /\ n' = n + 1
    /\ mpc' = IF n + 1 < NCols THEN "loop" ELSE "done"
    /\ UNCHANGED <<xvars, a0, a1>>

\* ---------------------------------------------------------- specifications
\* the variables of the function a specification does not run stay as set here
XIdle ==
    /\ ts = <<>> /\ half_width = 0 /\ ch = <<>> /\ car = FALSE /\ file_m = <<>>
    /\ pc = "idle" /\ opened = FALSE /\ n_wf_samples = 0 /\ ts_samples = <<>>
    /\ t_sample_first = 0 /\ t_sample_last = 0 /\ n_chunks = 0 /\ chunk_sample = <<>>
    /\ noise_s_chunks = <<>> /\ noise_s = <<>> /\ waveforms = <<>> /\ i = 0 /\ spk = 0
    /\ chunk = 0 /\ error = "none" /\ reads = <<>>
MIdle ==
    /\ a0 = <<>> /\ a1 = <<>> /\ ia = <<>> /\ ib = <<>> /\ n = 0 /\ mpc = "idle"

\* one call of extract_waveforms
Init == XInit /\ MIdle
Next ==
    \/ OpenReader
    \/ ConvertTimestamps
    \/ ValidateChannels
    \/ CarSetup
    \/ CarTiming
    \/ CarChunk
    \/ CarMedian
    \/ Allocate
    \/ Probe
    \/ Extract
    \/ Finish
Spec == Init /\ [][Next]_vars

\* one call of ismember2d
InitMember == MInit /\ XIdle
NextMember == MemberFirst \/ MemberColumn
SpecMember == InitMember /\ [][NextMember]_vars

\* ------------------------------------------------------------------ claims
Terminated == pc \in {"done", "raised"}
IsRowRead(r) == r.kind \in {"probe", "spike"}
IsEstRead(r) == r.kind \in {"timing", "chunk"}
IsSpikeRead(r) == r.kind = "spike"
RowReads == SelectSeq(reads, IsRowRead)
EstReads == SelectSeq(reads, IsEstRead)
SpikeReads == SelectSeq(reads, IsSpikeRead)

\* the centre sample and half width the specification asks for (rounded), and
\* the ones the code computes (truncated)
RoundedSample(k) == RoundDiv(ts[k], TicksPerSample)
RoundedHalf == RoundDiv(half_width, TicksPerSample)
TruncSample(k) == TruncDiv(ts[k], TicksPerSample)
TruncHalf == TruncDiv(half_width, TicksPerSample)

InRecording(start, stop) == 0 <= start /\ stop <= TotalSamples
ChannelsInRange == \A j \in 1..Len(ch) : 0 <= ch[j] /\ ch[j] < n_ch_probe

\* timestamps given in ascending order, a positive width, and every spike's
\* window inside the recording, under either reading of the window
WindowsValid ==
    /\ Len(ts) >= 1
    /\ TruncHalf > 0
    /\ \A k \in 1..Len(ts) - 1 : ts[k] <= ts[k + 1]
    /\ \A k \in 1..Len(ts) :
         /\ InRecording(TruncSample(k) - TruncHalf, TruncSample(k) + TruncHalf)
         /\ InRecording(RoundedSample(k) - RoundedHalf, RoundedSample(k) + RoundedHalf)

\* a valid call: valid timestamps and window, and channels in range
ValidCall == WindowsValid /\ ChannelsInRange

\* some spike's window, as the code computes it, leaves the recording
SomeWindowOutOfRange ==
    \E k \in 1..Len(ts) : ~InRecording(TruncSample(k) - TruncHalf, TruncSample(k) + TruncHalf)

\* the shape of the returned tensor
ShapeOk ==
    /\ Len(waveforms) = Len(ts)
    /\ \A r \in 1..Len(waveforms) :
         /\ Len(waveforms[r]) = 2 * n_wf_samples
         /\ \A k \in 1..Len(waveforms[r]) : Len(waveforms[r][k]) = Len(ch)

\* C1: every valid call returns a tensor of shape (number of timestamps,
\* 2 * half width, number of selected channels); none ends in an exception,
\* also not one with fewer than 5 timestamps
C1_ValidCallReturns == (ValidCall /\ Terminated) => (pc = "done" /\ ShapeOk)

\* C2: every read issued to fill an output row lies inside the recording,
\* 0 <= start and end <= total_samples (here already for the valid calls)
C2_RowReadsInRecording ==
    ValidCall => \A x \in 1..Len(RowReads) : InRecording(RowReads[x].start, RowReads[x].stop)

\* C3: a call in which some spike's window starts below sample 0 or ends after
\* total_samples returns no tensor
C3_OutOfRangeAborts == SomeWindowOutOfRange => pc # "done"

\* C4: a call with a channel index outside [0, channel_count) fails at the
\* channel validation with the invalid-channel exception, before any read
C4_InvalidChannelRejected ==
    (WindowsValid /\ ~ChannelsInRange /\ pc \notin {"open", "convert", "validate"})
        => (pc = "raised" /\ error = "Exception" /\ reads = <<>>)

\* C5: in a valid call the window read for spike k is
\* [round(t*sr) - h, round(t*sr) + h) with h = round(sr/1000 * duration_ms/2)
C5_WindowRounded ==
    ValidCall => \A k \in 1..Len(SpikeReads) :
        /\ SpikeReads[k].start = RoundedSample(k) - RoundedHalf
        /\ SpikeReads[k].stop = RoundedSample(k) + RoundedHalf

\* the estimation range is a single chunk that lies inside the recording
SingleChunkInside ==
    /\ t_sample_first < t_sample_last
    /\ t_sample_last - t_sample_first <= n_chunk_samples
    /\ InRecording(t_sample_first, t_sample_last)
\* twice the exact median of channel ch[j] over [t_sample_first, t_sample_last)
ExactMedian2(j) ==
    Median2([k \in 1..t_sample_last - t_sample_first |-> file_m[t_sample_first + k - 1][ch[j]]])

\* C6: when the estimation range fits in one chunk the baseline is, for every
\* selected channel, the exact median of the channel's samples over the range
C6_SingleChunkExactMedian ==
    (car /\ pc \in {"alloc", "probe", "extract", "finish", "done"} /\ SingleChunkInside)
        => \A j \in 1..Len(ch) : noise_s[j] = ExactMedian2(j)

\* the value (doubled) that row r of the result must hold at time k, channel j
WindowValue(r, k, j) ==
    2 * file_m[ts_samples[r] - n_wf_samples + k - 1][ch[j]] - (IF car THEN noise_s[j] ELSE 0)

\* C7: on return, row i of the tensor holds the samples of the window of
\* timestamp i on the selected channels, minus the baseline when car
C7_RowsHoldWindows ==
    pc = "done" =>
        \A r \in 1..Len(ts) : \A k \in 1..2 * n_wf_samples : \A j \in 1..Len(ch) :
            /\ ts_samples[r] - n_wf_samples + k - 1 \in 0..TotalSamples - 1
            /\ waveforms[r][k][j] = WindowValue(r, k, j)

\* C8: a call with no timestamp or a non-positive window width issues no read,
\* reaches neither the estimator nor the per-spike loops and returns no tensor
C8_InvalidInputFailsFast ==
    (Len(ts) = 0 \/ RoundedHalf <= 0)
        => (reads = <<>> /\ pc \in {"open", "convert", "validate", "alloc", "raised"})

\* row i of a0 occurs as a whole row of a1
RowIn(row, a) == \E r \in 1..Len(a) : a[r] = row

\* C9: ismember2d returns lia true exactly at the rows of a0 that are rows of
\* a1, and locb such that a0[lia, :] equals a1[locb, :] row by row
C9_Member2dRows ==
    mpc = "done" =>
        /\ \A r \in 1..Len(a0) : ia[r] <=> RowIn(a0[r], a1)
        /\ Len(ib) = Len(Masked(a0, ia))
        /\ \A k \in 1..Len(ib) : a1[ib[k]] = Masked(a0, ia)[k]

\* the requested range of a read
Range(r) == <<r.start, r.stop>>
EstRanges == [k \in 1..Len(EstReads) |-> Range(EstReads[k])]

\* the partition of [first, last) into chunks of n_chunk_samples samples, the
\* last one possibly shorter
Partition(first, last) ==
    [k \in 1..Max2(CeilDiv(last - first, n_chunk_samples), 0) |->
        <<first + (k - 1) * n_chunk_samples, Min2(first + k * n_chunk_samples, last)>>]
\* the estimation has issued all its reads
EstimationOver == car /\ pc \in {"car_median", "alloc", "probe", "extract", "finish", "done"}
IsPrefix(s, t) == Len(s) <= Len(t) /\ \A k \in 1..Len(s) : s[k] = t[k]

\* C10 as stated: the estimation reads are exactly the partition of the range,
\* ceil((end - start) / chunk_size) reads, no sample requested twice and no
\* further estimation read (here already for the valid calls)
C10_ReadsArePartition ==
    ValidCall =>
        /\ IsPrefix(EstRanges, Partition(t_sample_first, t_sample_last))
        /\ EstimationOver => EstRanges = Partition(t_sample_first, t_sample_last)

\* the reads the estimation issues: the first chunk once to time it, then the
\* partition
TimedPartition(first, last) ==
    <<<<first, Min2(first + n_chunk_samples, last)>>>> \o Partition(first, last)

\* C10 amended: the estimation reads are one timing read of the first chunk
\* followed by the partition of [t_sample_first, t_sample_last) in ascending
\* order, each chunk of n_chunk_samples samples but the last, which may be
\* shorter: 1 + ceil((end - start) / chunk_size) reads when the estimation
\* ends, and a prefix of them when the call fails before
C10_ReadsAreTimedPartition ==
    /\ Len(EstReads) > 0 =>
         /\ IsPrefix(EstRanges, TimedPartition(t_sample_first, t_sample_last))
         /\ EstReads[1].kind = "timing"
         /\ \A k \in 2..Len(EstReads) : EstReads[k].kind = "chunk"
    /\ EstimationOver =>
         /\ EstRanges = TimedPartition(t_sample_first, t_sample_last)
         /\ Len(EstReads) = 1 + CeilDiv(t_sample_last - t_sample_first, n_chunk_samples)
         /\ \A k \in 2..Len(EstReads) :
              /\ EstReads[k].start < EstReads[k].stop
              /\ EstReads[k].stop - EstReads[k].start <= n_chunk_samples
              /\ k < Len(EstReads) =>
                   /\ EstReads[k].stop - EstReads[k].start = n_chunk_samples
                   /\ EstReads[k + 1].start = EstReads[k].stop
         /\ EstReads[2].start = t_sample_first
         /\ EstReads[Len(EstReads)].stop = t_sample_last
    /\ ~car => Len(EstReads) = 0

\* the estimation ended after three chunks, the last one shorter than the others
C10_Witness ==
    /\ EstimationOver
    /\ n_chunks = 3
    /\ EstReads[4].stop - EstReads[4].start < n_chunk_samples

\* the estimation has been handed its range: the chunks are laid out
EstimationEntered ==
    car /\ pc \in {"car_timing", "car_chunk", "car_median", "alloc", "probe", "extract",
                   "finish", "done"}

\* C11: with car, for every input with timestamps, a positive width and
\* channels in range, the range handed to the noise estimation is clipped to
\* the recording and not empty, 0 <= start < end <= total_samples, every
\* estimation read lies in it, and the baseline has one entry per channel
C11_EstimationRangeClipped ==
    (Len(ts) >= 1 /\ TruncHalf > 0 /\ ChannelsInRange) =>
        /\ EstimationEntered =>
             /\ 0 <= t_sample_first
             /\ t_sample_first < t_sample_last
             /\ t_sample_last <= TotalSamples
        /\ \A k \in 1..Len(EstReads) :
             /\ InRecording(EstReads[k].start, EstReads[k].stop)
             /\ EstReads[k].start < EstReads[k].stop
        /\ (EstimationOver /\ pc # "car_median") => Len(noise_s) = Len(ch)

====
